---------------------------- MODULE Spec2Model ----------------------------
(***************************************************************************)
(* Model of infiniteContext/pages/api/chat.js: the chat API route that     *)
(* answers a message with one model call, or, in "infinite" mode, splits   *)
(* a long text into word chunks, calls the model once per chunk in         *)
(* sequence and assembles the successful answers.                          *)
(*                                                                         *)
(* Strings are sequences of tokens.  A token is one character, except that *)
(* the fixed pieces of text the program itself writes (the literal parts   *)
(* of the prompt template, its four placeholders, the "[Part " label, the  *)
(* rate-limit note, the replacement patterns "$$" and "$&") are one token  *)
(* each.  Error messages are spelled out character by character, because   *)
(* the rate-limit test searches them for substrings.                       *)
(***************************************************************************)
EXTENDS Integers, Sequences, FiniteSets, TLC

VARIABLES
    pc,            \* where each handler invocation stands
    req,           \* the request it received
    chunks,        \* processLongText's chunks
    idx,           \* the pass of processChunks' loop
    results,       \* processChunks' results array
    hitRateLimit,  \* processChunks' hitRateLimit flag
    ret,           \* the value processChunks returned
    calls,         \* the gateway calls made for the request, in order
    res,           \* the response sent
    split          \* a call of processLongText on its own: input and output

vars == <<pc, req, chunks, idx, results, hitRateLimit, ret, calls, res, split>>

---------------------------------------------------------------------------
(* Bounds of the model.                                                    *)

\* The chunk size the handler uses.  The source's default is 500 words
\* (chat.js:53) and the handler never passes another value; the model
\* scales it down so that a text of a few words spans several chunks.
ChunkSize == 2

\* The longest fullText, in words, a request carries.
MaxWords == 5

\* Handler invocations that can be in progress at the same time.
MaxRequests == 2

\* The longest text, in characters, processLongText is called with on its
\* own, and the largest chunkSize it is called with.
MaxTextLen == 4
MaxChunkSize == 3

---------------------------------------------------------------------------
(* JavaScript values.                                                      *)

Undefined == [t |-> "undefined"]
Null == [t |-> "null"]
Str(s) == [t |-> "string", v |-> s]
Num(n) == [t |-> "number", v |-> n]

\* if (x), !x, filter(x => x): undefined, null, "" and 0 are falsy.
Truthy(x) ==
    \/ x.t = "string" /\ x.v # <<>>
    \/ x.t = "number" /\ x.v # 0

Digits == <<"0", "1", "2", "3", "4", "5", "6", "7", "8", "9">>

\* String(n) of a non-negative integer, as template literals and
\* String.prototype.replace convert a number.
RECURSIVE NumToStr(_)
NumToStr(n) ==
    IF n < 10 THEN <<Digits[n + 1]>>
    ELSE NumToStr(n \div 10) \o <<Digits[(n % 10) + 1]>>

Upper == <<"A", "B", "C", "D", "E", "F", "G", "H", "I", "J", "K", "L", "M",
           "N", "O", "P", "Q", "R", "S", "T", "U", "V", "W", "X", "Y", "Z">>
Lower == <<"a", "b", "c", "d", "e", "f", "g", "h", "i", "j", "k", "l", "m",
           "n", "o", "p", "q", "r", "s", "t", "u", "v", "w", "x", "y", "z">>

LowerChar(c) ==
    IF \E i \in 1..26 : Upper[i] = c
    THEN Lower[CHOOSE i \in 1..26 : Upper[i] = c]
    ELSE c

\* String.prototype.toLowerCase
ToLowerCase(s) == [i \in 1..Len(s) |-> LowerChar(s[i])]

\* String.prototype.includes
Includes(s, sub) ==
    \E i \in 0..(Len(s) - Len(sub)) : SubSeq(s, i + 1, i + Len(sub)) = sub

IsSpace(c) == c \in {" ", "\n", "\t"}

\* String.prototype.split(/\s+/): the pieces between maximal runs of
\* whitespace.  A leading or trailing run leaves an empty piece at that end,
\* and the empty string splits into one empty piece.
RECURSIVE SplitFrom(_, _, _, _)
SplitFrom(s, i, cur, acc) ==
    IF i > Len(s) THEN Append(acc, cur)
    ELSE IF IsSpace(s[i])
         THEN IF i > 1 /\ IsSpace(s[i - 1])
              THEN SplitFrom(s, i + 1, cur, acc)
              ELSE SplitFrom(s, i + 1, <<>>, Append(acc, cur))
         ELSE SplitFrom(s, i + 1, Append(cur, s[i]), acc)

SplitWhitespace(s) == SplitFrom(s, 1, <<>>, <<>>)

\* Array.prototype.join(sep)
RECURSIVE Join(_, _)
Join(parts, sep) ==
    IF parts = <<>> THEN <<>>
    ELSE IF Len(parts) = 1 THEN parts[1]
    ELSE parts[1] \o sep \o Join(Tail(parts), sep)

\* Array.prototype.slice(from, to) with 0-based bounds, to exclusive.
Slice(a, from, to) ==
    SubSeq(a, from + 1, IF to < Len(a) THEN to ELSE Len(a))

\* The replacement text of String.prototype.replace(pattern, replacement)
\* for a string pattern: "$$" stands for "$" and "$&" for the matched text.
ExpandReplacement(rep, matched) ==
    [i \in 1..Len(rep) |->
        IF rep[i] = "$$" THEN "$"
        ELSE IF rep[i] = "$&" THEN matched
        ELSE rep[i]]

\* String.prototype.replace with a string pattern: only the first
\* occurrence of the pattern is replaced.
Replace(s, pat, rep) ==
    IF \E i \in 1..Len(s) : s[i] = pat
    THEN LET p == CHOOSE i \in 1..Len(s) :
                      s[i] = pat /\ \A j \in 1..(i - 1) : s[j] # pat
         IN  SubSeq(s, 1, p - 1) \o ExpandReplacement(rep, pat)
                 \o SubSeq(s, p + 1, Len(s))
    ELSE s

---------------------------------------------------------------------------
(* processLongText.                                                        *)

systemPromptForEachChunk ==
    << "Initial user's message was too long to process in a single request. The message has been divided into smaller chunks and processed individually. You are in chunk #",
       "{{chunk_number}}",
       " / ",
       "{{total_chunks}}",
       ". You can assume other chunks are similar to this one. You do not need to do an introduction or greeting in this chunk. Just start answer directly from the context of this chunk. You will be given 1) what the user has asked to do in the beginning of the chunk, and 2) the chunk of text. Here is the user's request: ",
       "{{user_request}}",
       ". Here is the chunk of text: ",
       "{{chunk_text}}",
       ". Please continue the conversation from this context." >>

\* Math.ceil(a / b) for a >= 0, b > 0
CeilDiv(a, b) == (a + b - 1) \div b

ChunkPrompt(chunkNumber, totalChunks, userRequest, chunkText) ==
    Replace(
      Replace(
        Replace(
          Replace(systemPromptForEachChunk,
                  "{{chunk_number}}", NumToStr(chunkNumber)),
          "{{total_chunks}}", NumToStr(totalChunks)),
        "{{user_request}}", userRequest),
      "{{chunk_text}}", chunkText)

\* Mutant of ChunkNumberAt: the chunk number is left 0-based.
ChunkNumberAt_ZeroBased(i, chunkSize) == i \div chunkSize

\* Math.floor(i / chunkSize) + 1
ChunkNumberAt(i, chunkSize) == (i \div chunkSize) + 1

\* One chunk per pass of the loop: pass n (from 1) starts at word
\* i = (n - 1) * chunkSize and runs while i < words.length.
processLongText(text, userRequest, chunkSize) ==
    LET words == SplitWhitespace(text)
        totalChunks == CeilDiv(Len(words), chunkSize)
        passes == CeilDiv(Len(words), chunkSize)
    IN  [n \in 1..passes |->
            LET i == (n - 1) * chunkSize
                chunkText == Join(Slice(words, i, i + chunkSize), <<" ">>)
                chunkNumber == ChunkNumberAt(i, chunkSize)
            IN  [ prompt |-> ChunkPrompt(chunkNumber, totalChunks,
                                         userRequest, chunkText),
                  chunkText |-> chunkText,
                  chunkNumber |-> chunkNumber,
                  totalChunks |-> totalChunks ]]

---------------------------------------------------------------------------
(* The Model Gateway: modelResponse -> geminiResponse -> the provider.     *)

GeminiPrefix ==
    <<"G", "e", "m", "i", "n", "i", " ", "A", "P", "I", " ",
      "e", "r", "r", "o", "r", ":", " ">>

\* Messages of the errors the provider client throws.
Msg429 == <<"4", "2", "9">>
MsgTooMany ==
    <<"T", "o", "o", " ", "M", "a", "n", "y", " ",
      "R", "e", "q", "u", "e", "s", "t", "s">>
MsgUpper ==
    <<"T", "O", "O", " ", "M", "A", "N", "Y", " ",
      "R", "E", "Q", "U", "E", "S", "T", "S">>
Msg500 == <<"5", "0", "0", " ", "I", "n", "t", "e", "r", "n", "a", "l">>
MsgNear ==
    <<"4", "2", " ", "9", " ", "t", "o", "o", " ", "m", "a", "n", "y", " ",
      "r", "e", "q", "u", "e", "s", "t">>
MsgEmpty == <<>>

ProviderMessages == {Msg429, MsgTooMany, MsgUpper, Msg500, MsgNear, MsgEmpty}

\* Texts response.text() returns; the provider may generate nothing.
GeneratedTexts == {<<>>, <<"o", "k">>}

\* geminiResponse: the text the provider generated, or, when the provider
\* call throws, a new Error whose message is prefixed.
geminiResponse(outcome) ==
    IF outcome.ok
    THEN [ok |-> TRUE, value |-> Str(outcome.text)]
    ELSE [ok |-> FALSE, message |-> GeminiPrefix \o outcome.message]

\* modelResponse: every model name is served by geminiResponse.
modelResponse(model, outcome) ==
    IF model = "gemini" THEN geminiResponse(outcome)
    ELSE geminiResponse(outcome)

\* What the provider can do with one call.
ProviderOutcomes ==
    {[ok |-> TRUE, text |-> t] : t \in GeneratedTexts}
        \cup {[ok |-> FALSE, message |-> m] : m \in ProviderMessages}

Pending == [t |-> "pending"]

---------------------------------------------------------------------------
(* processChunks.                                                          *)

\* Mutant of ForOf: the list is walked from its end.
ForOf_Reversed(list, n) == list[Len(list) - n + 1]

\* for (const chunk of chunks): the chunk of pass n.
ForOf(list, n) == list[n]

\* Mutant of IsRateLimitError: the message is not lower-cased first.
IsRateLimitError_CaseSensitive(message) ==
    \/ Includes(message, <<"4", "2", "9">>)
    \/ Includes(message,
                <<"t", "o", "o", " ", "m", "a", "n", "y", " ",
                  "r", "e", "q", "u", "e", "s", "t", "s">>)

\* Mutant of IsRateLimitError: only the status code is looked for.
IsRateLimitError_Only429(message) ==
    Includes(ToLowerCase(message), <<"4", "2", "9">>)

\* Mutant of IsRateLimitError: every failure counts as a rate limit.
IsRateLimitError_Any(message) == TRUE

\* The rate-limit test of the catch block.
IsRateLimitError(message) ==
    \/ Includes(ToLowerCase(message), <<"4", "2", "9">>)
    \/ Includes(ToLowerCase(message),
                <<"t", "o", "o", " ", "m", "a", "n", "y", " ",
                  "r", "e", "q", "u", "e", "s", "t", "s">>)

\* { ...chunk, response, error: null }
SuccessOutcome(chunk, response) ==
    [ prompt |-> chunk.prompt, chunkText |-> chunk.chunkText,
      chunkNumber |-> chunk.chunkNumber, totalChunks |-> chunk.totalChunks,
      response |-> response, error |-> Null ]

\* Mutant of FailureOutcome: the message lands in the response field.
FailureOutcome_AsResponse(chunk, message) ==
    [ prompt |-> chunk.prompt, chunkText |-> chunk.chunkText,
      chunkNumber |-> chunk.chunkNumber, totalChunks |-> chunk.totalChunks,
      response |-> Str(message), error |-> Null ]

\* Mutant of FailureOutcome: error: null is kept from the success case.
FailureOutcome_NullError(chunk, message) ==
    [ prompt |-> chunk.prompt, chunkText |-> chunk.chunkText,
      chunkNumber |-> chunk.chunkNumber, totalChunks |-> chunk.totalChunks,
      response |-> Null, error |-> Null ]

\* { ...chunk, response: null, error: error.message }
FailureOutcome(chunk, message) ==
    [ prompt |-> chunk.prompt, chunkText |-> chunk.chunkText,
      chunkNumber |-> chunk.chunkNumber, totalChunks |-> chunk.totalChunks,
      response |-> Null, error |-> Str(message) ]

\* Mutant of ProcessChunksResult: the flag is not handed back.
ProcessChunksResult_NoFlag(rs, hit, list) ==
    [ results |-> rs, hitRateLimit |-> FALSE,
      processedCount |-> Len(rs), totalCount |-> Len(list) ]

\* Mutant of ProcessChunksResult: the chunk that hit the rate limit is
\* counted as processed.
ProcessChunksResult_Attempted(rs, hit, list) ==
    [ results |-> rs, hitRateLimit |-> hit,
      processedCount |-> IF hit THEN Len(rs) + 1 ELSE Len(rs),
      totalCount |-> Len(list) ]

\* The value processChunks returns.
ProcessChunksResult(rs, hit, list) ==
    [ results |-> rs, hitRateLimit |-> hit,
      processedCount |-> Len(rs), totalCount |-> Len(list) ]

---------------------------------------------------------------------------
(* handler.                                                                *)

\* Mutant of MethodAllowed: the method is not looked at.
MethodAllowed_Any(method) == TRUE

\* if (req.method !== 'POST') answers 405
MethodAllowed(method) == method = "POST"

\* Mutant of InfiniteMode: the mode is not looked at.
InfiniteMode_TextOnly(body) == Truthy(body.fullText)

\* if (mode === 'infinite' && fullText)
InfiniteMode(body) == body.mode = Str(<<"infinite">>) /\ Truthy(body.fullText)

\* Mutant of ErrorBody: the underlying message is withheld.
ErrorBody_NoDetails(message) ==
    [error |-> "Internal server error", details |-> Undefined]

\* The body of the 500 answer of the handler's catch.
ErrorBody(message) ==
    [error |-> "Internal server error", details |-> Str(message)]

NoteHead == "\n\n[Note: Rate limit reached. Processed "
NoteOutOf == " out of "
NoteTail == " chunks. Please wait a moment before requesting more.]"

PartLabel(chunk, totalCount) ==
    <<"[Part ">> \o NumToStr(chunk.chunkNumber) \o <<"/">>
        \o NumToStr(totalCount) \o <<"]", "\n">> \o chunk.response.v

\* The test of filter(chunk => chunk.response)
HasResponse(chunk) == Truthy(chunk.response)

SuccessfulResponses(processedChunks, totalCount) ==
    LET kept == SelectSeq(processedChunks, HasResponse)
    IN  [i \in 1..Len(kept) |-> PartLabel(kept[i], totalCount)]

StatusMessage(hit, processedCount, totalCount) ==
    IF hit
    THEN <<NoteHead>> \o NumToStr(processedCount) \o <<NoteOutOf>>
             \o NumToStr(totalCount) \o <<NoteTail>>
    ELSE <<>>

\* The body of the 200 answer of the chunked branch.
InfiniteBody(r) ==
    [ response |->
          Str(Join(SuccessfulResponses(r.results, r.totalCount), <<"\n\n">>)
                \o StatusMessage(r.hitRateLimit, r.processedCount,
                                 r.totalCount)),
      chunks |-> r.results,
      mode |-> "infinite",
      partial |-> r.hitRateLimit,
      processedCount |-> r.processedCount,
      totalCount |-> r.totalCount ]

---------------------------------------------------------------------------
(* Requests.                                                               *)

Requests == 1..MaxRequests

\* The requests of the sequential specification: one at a time.
Solo == {1}

\* n different one-letter words separated by single spaces
WordsText(n) == Join([k \in 1..n |-> <<Lower[k]>>], <<" ">>)

Texts ==
    {WordsText(n) : n \in 1..MaxWords}
        \cup { <<" ">>, <<" ">> \o WordsText(2), WordsText(2) \o <<" ", "\n">>,
               <<"a", " ", "\t", "b", " ", "c">> }

Methods == {"POST", "GET"}
MessageValues == {Undefined, Str(<<>>), Str(<<"H", "i">>)}
ModeValues == {Undefined, Str(<<"infinite">>), Str(<<"default">>)}
FullTextValues == {Undefined, Str(<<>>), Num(7)} \cup {Str(t) : t \in Texts}

\* req.body: no body at all, the JSON body null, or an object.
Bodies ==
    {Undefined, Null} \cup
    [message : MessageValues, mode : ModeValues, fullText : FullTextValues]

NoRequest == [method |-> "none", body |-> Undefined]
NoResponse == [status |-> 0]
NoReturn == [t |-> "none"]

DestructureError ==
    "Cannot destructure property 'message' of 'req.body' as it is undefined."
DestructureNullError ==
    "Cannot destructure property 'message' of 'req.body' as it is null."
SplitTypeError == "text.split is not a function"

NoSplit == [stage |-> "none"]

\* Mutant of LocalTo: the results list is one module-level list.
LocalTo_Module(r) == 1

\* const results = [] is a local of processChunks: each invocation has its
\* own list.
LocalTo(r) == r

HandlerInit ==
    /\ pc = [r \in Requests |-> "idle"]
    /\ req = [r \in Requests |-> NoRequest]
    /\ chunks = [r \in Requests |-> <<>>]
    /\ idx = [r \in Requests |-> 0]
    /\ results = [r \in Requests |-> <<>>]
    /\ hitRateLimit = [r \in Requests |-> FALSE]
    /\ ret = [r \in Requests |-> NoReturn]
    /\ calls = [r \in Requests |-> <<>>]
    /\ res = [r \in Requests |-> NoResponse]

Init == HandlerInit /\ split = NoSplit

\* res.status(status).json(body), which ends the invocation
Respond(r, status, body) ==
    /\ res' = [res EXCEPT ![r] = [status |-> status, body |-> body]]
    /\ pc' = [pc EXCEPT ![r] = "done"]

\* processChunks returns and the handler assembles and sends the answer.
Return(r, list, rs, hit, cs) ==
    LET out == ProcessChunksResult(rs, hit, list)
    IN  /\ ret' = [ret EXCEPT ![r] = out]
        /\ results' = [results EXCEPT ![LocalTo(r)] = rs]
        /\ hitRateLimit' = [hitRateLimit EXCEPT ![r] = hit]
        /\ calls' = [calls EXCEPT ![r] = cs]
        /\ Respond(r, 200, InfiniteBody(out))
        /\ UNCHANGED idx

\* Pass n of the loop of processChunks: the gateway is called with the
\* chunk's prompt, or, after the last chunk, the loop ends.
Pass(r, list, n, rs, cs) ==
    IF n <= Len(list)
    THEN /\ pc' = [pc EXCEPT ![r] = "await"]
         /\ idx' = [idx EXCEPT ![r] = n]
         /\ results' = [results EXCEPT ![LocalTo(r)] = rs]
         /\ calls' = [calls EXCEPT ![r] =
                Append(cs, [ prompt |-> ForOf(list, n).prompt,
                             chunk |-> ForOf(list, n).chunkNumber,
                             result |-> Pending ])]
         /\ UNCHANGED <<hitRateLimit, ret, res>>
    ELSE Return(r, list, rs, hitRateLimit[r], cs)

\* The handler from its entry to its first suspension or its answer.  The
\* await of processLongText, which itself awaits nothing, resumes with
\* nothing of the request changed, so the first pass of processChunks is
\* part of this step; likewise the handler's code after processChunks
\* returns is part of the step that makes it return.
ReceiveFrom(r, methods, bodies) ==
    /\ pc[r] = "idle"
    /\ \E method \in methods, body \in bodies :
        /\ req' = [req EXCEPT ![r] = [method |-> method, body |-> body]]
        /\ IF ~MethodAllowed(method)
           THEN /\ Respond(r, 405, [error |-> "Method not allowed"])
                /\ UNCHANGED <<chunks, idx, results, hitRateLimit, ret, calls>>
           ELSE IF body \in {Undefined, Null}
           THEN /\ Respond(r, 500,
                           ErrorBody(IF body = Undefined
                                     THEN <<DestructureError>>
                                     ELSE <<DestructureNullError>>))
                /\ UNCHANGED <<chunks, idx, results, hitRateLimit, ret, calls>>
           ELSE IF ~Truthy(body.message)
           THEN /\ Respond(r, 400, [error |-> "Message is required"])
                /\ UNCHANGED <<chunks, idx, results, hitRateLimit, ret, calls>>
           ELSE IF InfiniteMode(body)
           THEN IF body.fullText.t # "string"
                THEN \* text.split throws, the handler's catch answers
                     /\ Respond(r, 500, ErrorBody(<<SplitTypeError>>))
                     /\ UNCHANGED <<chunks, idx, results, hitRateLimit, ret,
                                    calls>>
                ELSE LET list == processLongText(body.fullText.v,
                                                 body.message.v, ChunkSize)
                     IN  /\ chunks' = [chunks EXCEPT ![r] = list]
                         /\ Pass(r, list, 1, <<>>, <<>>)
           ELSE /\ pc' = [pc EXCEPT ![r] = "single"]
                /\ calls' = [calls EXCEPT ![r] =
                       <<[ prompt |-> body.message.v, chunk |-> 0,
                           result |-> Pending ]>>]
                /\ UNCHANGED <<chunks, idx, results, hitRateLimit, ret, res>>
    /\ UNCHANGED split

Receive(r) == ReceiveFrom(r, Methods, Bodies)

\* The calls of request r with the pending one completed by `outcome`.
Completed(r, outcome) ==
    [calls[r] EXCEPT ![Len(calls[r])].result = outcome]

\* The gateway call of the current chunk returns a text: the outcome is
\* recorded and the handler sleeps 100 ms.
ChunkSucceeds(r) ==
    /\ pc[r] = "await"
    /\ \E o \in {p \in ProviderOutcomes : p.ok} :
        LET g == modelResponse("gemini", o)
        IN  /\ results' = [results EXCEPT ![LocalTo(r)] =
                   Append(@, SuccessOutcome(ForOf(chunks[r], idx[r]), g.value))]
            /\ calls' = [calls EXCEPT ![r] = Completed(r, g)]
            /\ pc' = [pc EXCEPT ![r] = "delay"]
            /\ UNCHANGED <<req, chunks, idx, hitRateLimit, ret, res, split>>

\* The gateway call of the current chunk throws: a rate limit ends the
\* loop, any other error is recorded and the loop goes on.
ChunkFails(r) ==
    /\ pc[r] = "await"
    /\ \E o \in {p \in ProviderOutcomes : ~p.ok} :
        LET g == modelResponse("gemini", o)
            cs == Completed(r, g)
        IN  /\ IF IsRateLimitError(g.message)
               THEN Return(r, chunks[r], results[LocalTo(r)], TRUE, cs)
               ELSE Pass(r, chunks[r], idx[r] + 1,
                         Append(results[LocalTo(r)],
                                FailureOutcome(ForOf(chunks[r], idx[r]),
                                               g.message)),
                         cs)
            /\ UNCHANGED <<req, chunks, split>>

\* The 100 ms delay after a success elapses: the next pass starts.
DelayElapses(r) ==
    /\ pc[r] = "delay"
    /\ Pass(r, chunks[r], idx[r] + 1, results[LocalTo(r)], calls[r])
    /\ UNCHANGED <<req, chunks, split>>

\* Regular chat mode: the one gateway call returns.
SingleSucceeds(r) ==
    /\ pc[r] = "single"
    /\ \E o \in {p \in ProviderOutcomes : p.ok} :
        LET g == modelResponse("gemini", o)
        IN  /\ calls' = [calls EXCEPT ![r] = Completed(r, g)]
            /\ Respond(r, 200, [response |-> g.value, mode |-> "default"])
    /\ UNCHANGED <<req, chunks, idx, results, hitRateLimit, ret, split>>

\* Regular chat mode: the one gateway call throws, the handler's catch
\* answers 500.
SingleFails(r) ==
    /\ pc[r] = "single"
    /\ \E o \in {p \in ProviderOutcomes : ~p.ok} :
        LET g == modelResponse("gemini", o)
        IN  /\ calls' = [calls EXCEPT ![r] = Completed(r, g)]
            /\ Respond(r, 500, ErrorBody(g.message))
    /\ UNCHANGED <<req, chunks, idx, results, hitRateLimit, ret, split>>

\* The invocation is over: nothing of it is kept.
Finish(r) ==
    /\ pc[r] = "done"
    /\ pc' = [pc EXCEPT ![r] = "idle"]
    /\ req' = [req EXCEPT ![r] = NoRequest]
    /\ chunks' = [chunks EXCEPT ![r] = <<>>]
    /\ idx' = [idx EXCEPT ![r] = 0]
    /\ results' = [results EXCEPT ![LocalTo(r)] = <<>>]
    /\ hitRateLimit' = [hitRateLimit EXCEPT ![r] = FALSE]
    /\ ret' = [ret EXCEPT ![r] = NoReturn]
    /\ calls' = [calls EXCEPT ![r] = <<>>]
    /\ res' = [res EXCEPT ![r] = NoResponse]
    /\ UNCHANGED split

Step(r) ==
    \/ Receive(r)
    \/ ChunkSucceeds(r)
    \/ ChunkFails(r)
    \/ DelayElapses(r)
    \/ SingleSucceeds(r)
    \/ SingleFails(r)
    \/ Finish(r)

Next == \E r \in Solo : Step(r)

Spec == Init /\ [][Next]_vars

---------------------------------------------------------------------------
(* processLongText called on its own, as a pure function of its inputs.    *)

Alphabet == {"a", "b", " ", "\n"}

SplitTexts == UNION {[1..k -> Alphabet] : k \in 0..MaxTextLen}

\* User requests: plain text, and text that holds a placeholder of the
\* template or a replacement pattern.
UserRequests ==
    { <<"H", "i">>, <<"s", "e", "e", " ", "{{chunk_text}}">>, <<"$&">> }

ChunkSizes == 1..MaxChunkSize

SplitInit ==
    /\ HandlerInit
    /\ \E text \in SplitTexts, userRequest \in UserRequests,
          chunkSize \in ChunkSizes :
           split = [ stage |-> "input", text |-> text,
                     userRequest |-> userRequest, chunkSize |-> chunkSize ]

\* The call returns its chunks.
SplitCall ==
    /\ split.stage = "input"
    /\ split' = [ stage |-> "output", text |-> split.text,
                  userRequest |-> split.userRequest,
                  chunkSize |-> split.chunkSize,
                  out |-> processLongText(split.text, split.userRequest,
                                          split.chunkSize) ]
    /\ UNCHANGED <<pc, req, chunks, idx, results, hitRateLimit, ret, calls,
                   res>>

SplitNext == SplitCall

SpecSplit == SplitInit /\ [][SplitNext]_vars

---------------------------------------------------------------------------
(* Two invocations of the handler in one process: each runs until it       *)
(* awaits (the gateway call, the delay after a success), and the other may *)
(* run in between.                                                         *)

\* The two invocations.
Pair == {1, MaxRequests}

\* A text of more words than one chunk holds.
LongText == WordsText(ChunkSize + 1)

\* Requests of the pair: a regular chat, and chunked requests that differ
\* in their message or in their text.
PairBodies ==
    { [ message |-> Str(<<"H", "i">>), mode |-> Str(<<"default">>),
        fullText |-> Undefined ],
      [ message |-> Str(<<"H", "i">>), mode |-> Str(<<"infinite">>),
        fullText |-> Str(LongText) ],
      [ message |-> Str(<<"Y", "o">>), mode |-> Str(<<"infinite">>),
        fullText |-> Str(LongText) ],
      [ message |-> Str(<<"Y", "o">>), mode |-> Str(<<"infinite">>),
        fullText |-> Str(WordsText(1)) ] }

PairReceive(r) == ReceiveFrom(r, {"POST"}, PairBodies)

PairStep(r) ==
    \/ PairReceive(r)
    \/ ChunkSucceeds(r)
    \/ ChunkFails(r)
    \/ DelayElapses(r)
    \/ SingleSucceeds(r)
    \/ SingleFails(r)
    \/ Finish(r)

PairNext == \E r \in Pair : PairStep(r)

SpecPair == Init /\ [][PairNext]_vars

---------------------------------------------------------------------------
(* Vocabulary of the properties.                                           *)

\* The gateway failure messages of the model that carry a rate-limit
\* signature, listed one by one.
SignatureMessages ==
    { GeminiPrefix \o Msg429, GeminiPrefix \o MsgTooMany,
      GeminiPrefix \o MsgUpper }

Threw(c) == c.result # Pending /\ ~c.result.ok
Returned(c) == c.result # Pending /\ c.result.ok
RateLimited(c) == Threw(c) /\ c.result.message \in SignatureMessages
OtherFailure(c) == Threw(c) /\ c.result.message \notin SignatureMessages

\* A field of an outcome is present when it is neither null nor undefined.
Present(x) == x # Null /\ x # Undefined

\* The request took the chunked branch.
Chunked(r) == chunks[r] # <<>>

\* processChunks has returned for request r.
HasReturned(r) == ret[r] # NoReturn

\* The handler answered 200 from the chunked branch.
AnsweredInfinite(r) ==
    /\ pc[r] = "done"
    /\ res[r].status = 200
    /\ res[r].body.mode = "infinite"

\* The calls of request r made for chunk k, by position in the log.
CallsFor(r, k) == {i \in 1..Len(calls[r]) : calls[r][i].chunk = k}

---------------------------------------------------------------------------
\* C1: if the first gateway failure with a rate-limit signature occurs on
\* chunk k, processChunks returns exactly the k-1 outcomes of chunks
\* 1..k-1, hitRateLimit = TRUE and processedCount = k-1.
C1_RateLimitOnChunkK ==
    \A r \in Requests :
        HasReturned(r) =>
            \A k \in 1..Len(chunks[r]) :
                ( \E i \in CallsFor(r, k) :
                      /\ RateLimited(calls[r][i])
                      /\ \A j \in 1..(i - 1) : ~RateLimited(calls[r][j]) )
                =>
                ( /\ Len(ret[r].results) = k - 1
                  /\ \A j \in 1..(k - 1) :
                        /\ ret[r].results[j].chunkNumber = j
                        /\ ret[r].results[j].prompt = chunks[r][j].prompt
                  /\ ret[r].hitRateLimit = TRUE
                  /\ ret[r].processedCount = k - 1 )

\* A run stopped by a rate limit on its second chunk, by a message that
\* carries the signature in capitals.
C1_Witness ==
    /\ HasReturned(1)
    /\ Len(calls[1]) = 2
    /\ calls[1][2].chunk = 2
    /\ RateLimited(calls[1][2])
    /\ calls[1][2].result.message = GeminiPrefix \o MsgUpper
    /\ Len(ret[1].results) = 1

\* C2: once a gateway call has failed with a rate-limit signature, no later
\* call is made in the run and the failing chunk has no outcome.
C2_StopsAtRateLimit ==
    \A r \in Requests :
        Chunked(r) =>
            \A i \in 1..Len(calls[r]) :
                RateLimited(calls[r][i]) =>
                    /\ i = Len(calls[r])
                    /\ pc[r] = "done"
                    /\ \A j \in 1..Len(results[r]) :
                           results[r][j].chunkNumber # calls[r][i].chunk
                    /\ HasReturned(r)
                    /\ \A j \in 1..Len(ret[r].results) :
                           ret[r].results[j].chunkNumber # calls[r][i].chunk

\* A rate limit on the first of three chunks: one call, no outcome.
C2_Witness ==
    /\ Len(chunks[1]) = 3
    /\ Len(calls[1]) = 1
    /\ RateLimited(calls[1][1])
    /\ results[1] = <<>>
    /\ pc[1] = "done"

\* C3: a failure of chunk k without a rate-limit signature is recorded as
\* an outcome of chunk k with error = the message and response = null, and
\* when k is not the last chunk the gateway is called for chunk k+1.
C3_OtherFailureRecorded ==
    \A r \in Requests :
        Chunked(r) =>
            \A i \in 1..Len(calls[r]) :
                OtherFailure(calls[r][i]) =>
                    LET k == calls[r][i].chunk
                    IN  /\ \E j \in 1..Len(results[r]) :
                               /\ results[r][j].chunkNumber = k
                               /\ results[r][j].error =
                                      Str(calls[r][i].result.message)
                               /\ results[r][j].response = Null
                        /\ k < Len(chunks[r]) =>
                               /\ Len(calls[r]) > i
                               /\ calls[r][i + 1].chunk = k + 1
                        /\ k < Len(chunks[r]) /\ i + 1 = Len(calls[r])
                               /\ calls[r][i + 1].result = Pending
                               => pc[r] = "await"

\* The first of three chunks failed with a near-miss message, and the
\* second chunk's call is in flight.
C3_Witness ==
    /\ Len(chunks[1]) = 3
    /\ Len(calls[1]) = 2
    /\ OtherFailure(calls[1][1])
    /\ calls[1][1].result.message = GeminiPrefix \o MsgNear
    /\ calls[1][2].chunk = 2
    /\ calls[1][2].result = Pending
    /\ Len(results[1]) = 1

\* C4: in every result of processChunks processedCount <= totalCount, and
\* processedCount < totalCount only when hitRateLimit is TRUE.
C4_CountInvariant ==
    \A r \in Requests :
        HasReturned(r) =>
            /\ ret[r].totalCount = Len(chunks[r])
            /\ ret[r].processedCount <= ret[r].totalCount
            /\ ret[r].processedCount < ret[r].totalCount
                   => ret[r].hitRateLimit = TRUE

\* A result that stopped short: one of three chunks processed.
C4_Witness ==
    /\ HasReturned(1)
    /\ ret[1].processedCount = 1
    /\ ret[1].totalCount = 3
    /\ ret[1].hitRateLimit

\* C5: every recorded outcome has exactly one of response and error
\* present, whatever the gateway returned or threw.
C5_ExactlyOnePresent ==
    \A r \in Requests :
        \A j \in 1..Len(results[r]) :
            Present(results[r][j].response) # Present(results[r][j].error)

\* An outcome with an empty generated text next to one with the prefixed
\* empty failure message.
C5_Witness ==
    /\ Len(results[1]) = 2
    /\ results[1][1].response = Str(<<>>)
    /\ results[1][1].error = Null
    /\ results[1][2].response = Null
    /\ results[1][2].error = Str(GeminiPrefix \o MsgEmpty)

\* C6 as claimed: processedCount equals the number of chunks for which the
\* gateway was called.
C6_CountsAttempted ==
    \A r \in Requests :
        HasReturned(r) => ret[r].processedCount = Len(calls[r])

\* C6 as amended: processedCount equals the number of outcomes recorded,
\* that is the number of chunks attempted whose call did not fail with a
\* rate-limit signature: all attempted chunks when no rate limit was hit,
\* one less when the run was stopped by one.
C6_CountsRecorded ==
    \A r \in Requests :
        HasReturned(r) =>
            /\ ret[r].processedCount = Len(ret[r].results)
            /\ ret[r].processedCount =
                   Cardinality({i \in 1..Len(calls[r]) :
                                    ~RateLimited(calls[r][i])})
            /\ ret[r].processedCount =
                   Len(calls[r]) - (IF ret[r].hitRateLimit THEN 1 ELSE 0)

\* Three chunks attempted, the third rate limited: processedCount = 2.
C6_Witness ==
    /\ HasReturned(1)
    /\ Len(calls[1]) = 3
    /\ RateLimited(calls[1][3])
    /\ ret[1].processedCount = 2

---------------------------------------------------------------------------
(* Reading a combined response back: its [Part i/N] sections.              *)

IsDigit(c) == \E d \in 1..10 : Digits[d] = c

DigitValue(c) == (CHOOSE d \in 1..10 : Digits[d] = c) - 1

\* The digits of s from position p on.
RECURSIVE DigitsFrom(_, _)
DigitsFrom(s, p) ==
    IF p <= Len(s) /\ IsDigit(s[p])
    THEN <<s[p]>> \o DigitsFrom(s, p + 1)
    ELSE <<>>

RECURSIVE ParseNat(_)
ParseNat(ds) ==
    IF ds = <<>> THEN 0
    ELSE ParseNat(SubSeq(ds, 1, Len(ds) - 1)) * 10 + DigitValue(ds[Len(ds)])

\* The tokens of s from position p up to the next separator, note or end.
RECURSIVE TextFrom(_, _)
TextFrom(s, p) ==
    IF p > Len(s) \/ s[p] \in {"\n\n", NoteHead} THEN <<>>
    ELSE <<s[p]>> \o TextFrom(s, p + 1)

IsPartStart(s, p) == s[p] = "[Part "

\* The positions of s, in order, where a section starts.
PartPositions(s) ==
    LET positions == [p \in 1..Len(s) |-> p]
        Starts(p) == IsPartStart(s, p)
    IN  SelectSeq(positions, Starts)

\* The section of s that starts at position p: "[Part ", i, "/", N, "]",
\* a newline, and the text.
SectionAt(s, p) ==
    LET i == DigitsFrom(s, p + 1)
        slash == p + 1 + Len(i)
        n == DigitsFrom(s, slash + 1)
        close == slash + 1 + Len(n)
    IN  [ index |-> ParseNat(i),
          total |-> ParseNat(n),
          wellFormed |->
              /\ i # <<>> /\ n # <<>>
              /\ close + 1 <= Len(s)
              /\ s[slash] = "/" /\ s[close] = "]" /\ s[close + 1] = "\n",
          text |-> TextFrom(s, close + 2) ]

Sections(s) ==
    LET at == PartPositions(s)
    IN  [k \in 1..Len(at) |-> SectionAt(s, at[k])]

\* The rate-limit note for the given counts, as the caller reads it.
Note(processedCount, totalCount) ==
    <<NoteHead>> \o NumToStr(processedCount) \o <<NoteOutOf>>
        \o NumToStr(totalCount) \o <<NoteTail>>

EndsWith(s, tail) ==
    Len(s) >= Len(tail) /\ SubSeq(s, Len(s) - Len(tail) + 1, Len(s)) = tail

HasNote(s) == \E p \in 1..Len(s) : s[p] = NoteHead

\* The outcomes of a list whose response is present, in order.
ResponsePresent(o) == Present(o.response)
WithResponse(outcomes) == SelectSeq(outcomes, ResponsePresent)

\* The sections a list of outcomes calls for: one per outcome with a
\* response present.
SectionsFor(outcomes) ==
    LET kept == WithResponse(outcomes)
    IN  [k \in 1..Len(kept) |->
            [ index |-> kept[k].chunkNumber,
              total |-> kept[k].totalChunks,
              wellFormed |-> TRUE,
              text |-> kept[k].response.v ]]

---------------------------------------------------------------------------
\* C7: the gateway calls of a chunked request are made in strictly
\* ascending chunk order, each only after the previous call has completed,
\* and the [Part i/N] sections of the combined response are in ascending i.
C7_AscendingOrder ==
    \A r \in Requests :
        Chunked(r) =>
            /\ \A i \in 1..Len(calls[r]) :
                   /\ calls[r][i].chunk = chunks[r][calls[r][i].chunk].chunkNumber
                   /\ calls[r][i].prompt = chunks[r][calls[r][i].chunk].prompt
            /\ \A i, j \in 1..Len(calls[r]) :
                   i < j => /\ calls[r][i].chunk < calls[r][j].chunk
                            /\ calls[r][i].result # Pending
            /\ AnsweredInfinite(r) =>
                   LET secs == Sections(res[r].body.response.v)
                   IN  \A a, b \in 1..Len(secs) :
                           a < b => secs[a].index < secs[b].index

\* Three calls made for chunks 1, 2, 3 and an answer with sections 1 and 3.
C7_Witness ==
    /\ AnsweredInfinite(1)
    /\ Len(calls[1]) = 3
    /\ Len(Sections(res[1].body.response.v)) = 2
    /\ Sections(res[1].body.response.v)[1].index = 1
    /\ Sections(res[1].body.response.v)[2].index = 3

\* C8: the combined response holds one section "[Part i/N]" with the
\* response text for exactly the outcomes whose response is present, in
\* order, none for the outcomes with an error, and N is totalChunks.
C8_SectionPerResponse ==
    \A r \in Requests :
        AnsweredInfinite(r) =>
            Sections(res[r].body.response.v) = SectionsFor(res[r].body.chunks)

\* C9: a run stopped by a rate limit is still answered 200 with every
\* outcome gathered before the stop (the full outcome list and the section
\* of every earlier successful chunk), the note with processedCount out of
\* totalCount and partial = TRUE; without a rate limit there is no note and
\* partial = FALSE.
C9_PartialAnswer ==
    \A r \in Requests :
        HasReturned(r) =>
            /\ AnsweredInfinite(r)
            /\ res[r].body.partial = hitRateLimit[r]
            /\ IF \E i \in 1..Len(calls[r]) : RateLimited(calls[r][i])
               THEN /\ res[r].body.partial = TRUE
                    /\ res[r].body.chunks = results[r]
                    /\ Len(res[r].body.chunks) = Len(calls[r]) - 1
                    /\ \A i \in 1..Len(calls[r]) :
                         Returned(calls[r][i]) =>
                           \E k \in 1..Len(Sections(res[r].body.response.v)) :
                             /\ Sections(res[r].body.response.v)[k].index =
                                    calls[r][i].chunk
                             /\ Sections(res[r].body.response.v)[k].text =
                                    calls[r][i].result.value.v
                    /\ res[r].body.processedCount = ret[r].processedCount
                    /\ res[r].body.totalCount = ret[r].totalCount
                    /\ EndsWith(res[r].body.response.v,
                                Note(res[r].body.processedCount,
                                     res[r].body.totalCount))
               ELSE /\ res[r].body.partial = FALSE
                    /\ ~HasNote(res[r].body.response.v)

\* C10: a request whose method is not POST is answered 405 and makes no
\* gateway call, whatever its body.
C10_MethodNotAllowed ==
    \A r \in Requests :
        req[r].method \notin {"POST", "none"} =>
            /\ pc[r] = "done"
            /\ res[r] = [status |-> 405, body |-> [error |-> "Method not allowed"]]
            /\ calls[r] = <<>>

\* A GET that carries a complete chunked-mode body.
C10_Witness ==
    /\ req[1].method = "GET"
    /\ req[1].body \notin {Undefined, Null}
    /\ Truthy(req[1].body.message)
    /\ req[1].body.mode = Str(<<"infinite">>)
    /\ Truthy(req[1].body.fullText)
    /\ res[1].status = 405

---------------------------------------------------------------------------
(* Vocabulary of the request-level properties.                             *)

Received(r) == req[r] # NoRequest
Post(r) == req[r].method = "POST"

\* req.body is an object (possibly without fields).
HasBody(r) == req[r].body \notin {Undefined, Null}

\* The request carries no message field.
MessageMissing(r) == ~HasBody(r) \/ req[r].body.message = Undefined

\* The request is a POST with a message (a non-empty string).
PostWithMessage(r) ==
    /\ Post(r) /\ HasBody(r)
    /\ req[r].body.message.t = "string"
    /\ req[r].body.message.v # <<>>

ModeIsInfinite(r) == req[r].body.mode = Str(<<"infinite">>)

NonEmptyString(x) == x.t = "string" /\ x.v # <<>>

\* The chunked path: the splitter made chunks, every gateway call is the
\* call of a chunk, and the answer, once sent, is the 200 of mode
\* "infinite".
ChunkedPath(r) ==
    /\ Chunked(r)
    /\ pc[r] \in {"await", "delay", "done"}
    /\ \A i \in 1..Len(calls[r]) : calls[r][i].chunk >= 1
    /\ pc[r] = "done" => AnsweredInfinite(r)

\* The single-call path: exactly one gateway call, with the raw message,
\* and a 200 answer, if any, of mode "default".
SingleCallPath(r) ==
    /\ ~Chunked(r)
    /\ pc[r] \in {"single", "done"}
    /\ Len(calls[r]) = 1
    /\ calls[r][1].prompt = req[r].body.message.v
    /\ calls[r][1].chunk = 0
    /\ pc[r] = "single" <=> calls[r][1].result = Pending
    /\ pc[r] = "done" /\ res[r].status = 200 =>
           /\ res[r].body.mode = "default"
           /\ Returned(calls[r][1])
           /\ res[r].body.response = calls[r][1].result.value

---------------------------------------------------------------------------
\* C11: a POST request without a message field is answered 400, whatever
\* its other fields and also when it has no body, and makes no gateway call.
C11_MissingMessage400 ==
    \A r \in Requests :
        Received(r) /\ Post(r) /\ MessageMissing(r) =>
            /\ pc[r] = "done"
            /\ res[r].status = 400
            /\ calls[r] = <<>>

\* C12 as claimed: for a POST with a message the chunked path is taken if
\* and only if mode = "infinite" and a fullText is present; in every other
\* case there is exactly one gateway call, with the raw message, and the
\* 200 answer has mode "default".
C12_ChunkedIffPresent ==
    \A r \in Requests :
        Received(r) /\ PostWithMessage(r) =>
            IF ModeIsInfinite(r) /\ Present(req[r].body.fullText)
            THEN ChunkedPath(r)
            ELSE SingleCallPath(r)

\* C12 as amended: the chunked path is taken if and only if
\* mode = "infinite" and fullText is a non-empty string; with
\* mode = "infinite" and a truthy fullText that is not a string the
\* splitter throws and the answer is 500 without a gateway call; in every
\* other case, an empty-string fullText included, there is exactly one
\* gateway call, with the raw message, and the 200 answer has mode
\* "default".
C12_ChunkedIffNonEmpty ==
    \A r \in Requests :
        Received(r) /\ PostWithMessage(r) =>
            IF ModeIsInfinite(r) /\ NonEmptyString(req[r].body.fullText)
            THEN ChunkedPath(r)
            ELSE IF ModeIsInfinite(r) /\ Truthy(req[r].body.fullText)
            THEN /\ pc[r] = "done"
                 /\ res[r].status = 500
                 /\ calls[r] = <<>>
                 /\ ~Chunked(r)
            ELSE SingleCallPath(r)

\* mode = "infinite" with fullText = "": one call with the raw message and
\* the answer of mode "default".
C12_Witness ==
    /\ PostWithMessage(1)
    /\ ModeIsInfinite(1)
    /\ req[1].body.fullText = Str(<<>>)
    /\ pc[1] = "done"
    /\ res[1].status = 200
    /\ res[1].body.mode = "default"
    /\ Len(calls[1]) = 1

\* C13: in single-call mode a failure of the gateway call, rate limit or
\* not, is answered 500 with the generic error and the underlying message
\* in details; the gateway is called exactly once.
C13_SingleFailure500 ==
    \A r \in Requests :
        /\ Received(r) /\ Post(r) /\ ~Chunked(r) /\ calls[r] # <<>> =>
               Len(calls[r]) = 1
        /\ pc[r] = "done" /\ ~Chunked(r) /\ calls[r] # <<>>
                /\ Threw(calls[r][1]) =>
               /\ res[r].status = 500
               /\ res[r].body.error = "Internal server error"
               /\ res[r].body.details = Str(calls[r][1].result.message)
               /\ \E m \in ProviderMessages :
                      /\ calls[r][1].result.message = GeminiPrefix \o m
                      /\ EndsWith(res[r].body.details.v, m)

\* The single call failed with a rate-limit message and the answer is 500.
C13_Witness ==
    /\ pc[1] = "done"
    /\ ~Chunked(1)
    /\ Len(calls[1]) = 1
    /\ RateLimited(calls[1][1])
    /\ res[1].status = 500
    /\ res[1].body.details = Str(GeminiPrefix \o MsgTooMany)

---------------------------------------------------------------------------
\* C20: a POST with a message, mode = "infinite" and a non-empty string
\* fullText is always answered 200, never 500, whatever the gateway does;
\* when every chunk fails without a rate-limit signature the answer is 200
\* with an empty response text, partial = FALSE and
\* processedCount = totalCount, although no chunk produced text.
C20_ChunkedAlways200 ==
    \A r \in Requests :
        Received(r) /\ PostWithMessage(r) /\ ModeIsInfinite(r)
            /\ NonEmptyString(req[r].body.fullText) =>
            /\ pc[r] \in {"await", "delay", "done"}
            /\ pc[r] = "done" => res[r].status = 200
            /\ ( /\ pc[r] = "done"
                 /\ Len(calls[r]) = Len(chunks[r])
                 /\ \A i \in 1..Len(calls[r]) : OtherFailure(calls[r][i]) )
               =>
               ( /\ res[r].body.response = Str(<<>>)
                 /\ res[r].body.partial = FALSE
                 /\ res[r].body.processedCount = Len(chunks[r])
                 /\ res[r].body.totalCount = Len(chunks[r])
                 /\ \A j \in 1..Len(res[r].body.chunks) :
                        ~Present(res[r].body.chunks[j].response) )

\* Both chunks of a text failed with errors that are no rate limit.
C20_Witness ==
    /\ PostWithMessage(1)
    /\ pc[1] = "done"
    /\ Len(chunks[1]) = 2
    /\ Len(calls[1]) = 2
    /\ OtherFailure(calls[1][1])
    /\ OtherFailure(calls[1][2])
    /\ res[1].status = 200
    /\ res[1].body.response = Str(<<>>)
    /\ res[1].body.partial = FALSE
    /\ res[1].body.processedCount = 2

---------------------------------------------------------------------------
(* Vocabulary of the properties of processLongText.                        *)

SplitDone == split.stage = "output"

\* The positions of s where a word (a maximal run of non-whitespace) starts.
WordStarts(s) ==
    {i \in 1..Len(s) : ~IsSpace(s[i]) /\ (i = 1 \/ IsSpace(s[i - 1]))}

\* The position where the word that starts at i ends.
WordEnd(s, i) ==
    CHOOSE j \in i..Len(s) :
        /\ \A k \in i..j : ~IsSpace(s[k])
        /\ j = Len(s) \/ IsSpace(s[j + 1])

\* The k-th smallest element of a set of numbers.
Kth(S, k) == CHOOSE x \in S : Cardinality({y \in S : y < x}) = k - 1

\* The whitespace-separated words of s, in order.
Words(s) ==
    [k \in 1..Cardinality(WordStarts(s)) |->
        LET i == Kth(WordStarts(s), k) IN SubSeq(s, i, WordEnd(s, i))]

WordCount(s) == Len(Words(s))

\* The least q with q * b >= a, for a >= 0 and b > 0.
Ceil(a, b) == CHOOSE q \in 0..a : q * b >= a /\ (q = 0 \/ (q - 1) * b < a)

WhitespaceOnly(s) == \A i \in 1..Len(s) : IsSpace(s[i])

\* The chunkText of the chunks with one space between consecutive chunks.
RECURSIVE SpaceJoined(_)
SpaceJoined(list) ==
    IF list = <<>> THEN <<>>
    ELSE IF Len(list) = 1 THEN list[1].chunkText
    ELSE list[1].chunkText \o <<" ">> \o SpaceJoined(Tail(list))

---------------------------------------------------------------------------
\* C14: for a non-empty text and a positive chunkSize processLongText
\* returns ceil(wordCount(text) / chunkSize) chunks, and totalChunks of
\* every chunk is that number.
C14_ChunkCount ==
    SplitDone /\ split.text # <<>> =>
        /\ Len(split.out) = Ceil(WordCount(split.text), split.chunkSize)
        /\ \A i \in 1..Len(split.out) :
               split.out[i].totalChunks =
                   Ceil(WordCount(split.text), split.chunkSize)

\* C15: processLongText returns no chunk when text is empty or consists
\* of whitespace only.
C15_EmptyForBlankText ==
    SplitDone /\ WhitespaceOnly(split.text) => split.out = <<>>

\* C16: the chunkText of all chunks, put together in order (with
\* whitespace between consecutive chunks) and split on whitespace, is the
\* sequence of words of text, nothing lost, duplicated or reordered, and
\* every chunk but the last holds exactly chunkSize words.
C16_RoundTrip ==
    SplitDone =>
        /\ Words(SpaceJoined(split.out)) = Words(split.text)
        /\ \A i \in 1..(Len(split.out) - 1) :
               WordCount(split.out[i].chunkText) = split.chunkSize

\* C17: the chunkNumber values of the chunks are 1, 2, ..., n in order.
C17_ChunkNumbers ==
    SplitDone =>
        \A i \in 1..Len(split.out) : split.out[i].chunkNumber = i

\* Two words in chunks of one word.
C17_Witness ==
    /\ SplitDone
    /\ split.chunkSize = 1
    /\ Len(split.out) = 2
    /\ split.out[1].chunkNumber = 1
    /\ split.out[2].chunkNumber = 2
    /\ split.out[2].chunkText = <<"b">>

\* The template with all four placeholders replaced at once.
RECURSIVE Filled(_, _, _, _, _)
Filled(template, number, total, userRequest, chunkText) ==
    IF template = <<>> THEN <<>>
    ELSE (IF template[1] = "{{chunk_number}}" THEN NumToStr(number)
          ELSE IF template[1] = "{{total_chunks}}" THEN NumToStr(total)
          ELSE IF template[1] = "{{user_request}}" THEN userRequest
          ELSE IF template[1] = "{{chunk_text}}" THEN chunkText
          ELSE <<template[1]>>)
         \o Filled(Tail(template), number, total, userRequest, chunkText)

\* C19: the prompt of a chunk is the template with its four placeholders
\* replaced in place by the chunk's index, totalChunks, the verbatim
\* userRequest and the chunk's text, also when the userRequest holds
\* placeholder text.
C19_PromptVerbatim ==
    SplitDone =>
        \A i \in 1..Len(split.out) :
            split.out[i].prompt =
                Filled(systemPromptForEachChunk, i, split.out[i].totalChunks,
                       split.userRequest, split.out[i].chunkText)

---------------------------------------------------------------------------
(* Vocabulary of the isolation property.                                   *)

\* Everything invocation r holds.
LocalsOf(r) ==
    << pc[r], req[r], chunks[r], idx[r], results[r], hitRateLimit[r],
       ret[r], calls[r], res[r] >>

\* The chunks of r's own request.
OwnChunks(r) ==
    processLongText(req[r].body.fullText.v, req[r].body.message.v, ChunkSize)

\* The gateway calls of r that leave an outcome: the completed ones that
\* were not rate-limited, in the order they were made.
OwnRecorded(r) ==
    LET Leaves(c) == Returned(c) \/ OtherFailure(c)
    IN  SelectSeq(calls[r], Leaves)

\* The outcome the gateway call c leaves, own being the chunks of the
\* request that made it.
OwnOutcome(own, c) ==
    [ prompt |-> own[c.chunk].prompt,
      chunkText |-> own[c.chunk].chunkText,
      chunkNumber |-> c.chunk,
      totalChunks |-> Len(own),
      response |-> IF Returned(c) THEN c.result.value ELSE Null,
      error |-> IF Returned(c) THEN Null ELSE Str(c.result.message) ]

\* The outcomes r has when it runs alone and the gateway answers its calls
\* as calls[r] records.
OwnOutcomes(r) ==
    LET own == OwnChunks(r)
        rec == OwnRecorded(r)
    IN  [i \in 1..Len(rec) |-> OwnOutcome(own, rec[i])]

\* One of r's own calls was rate-limited.
OwnStop(r) == \E i \in 1..Len(calls[r]) : RateLimited(calls[r][i])

\* What processChunks returns to r running alone.
OwnReturn(r) ==
    LET outs == OwnOutcomes(r)
    IN  [ results |-> outs, hitRateLimit |-> OwnStop(r),
          processedCount |-> Len(outs), totalCount |-> Len(chunks[r]) ]

\* The answer of r running alone.
OwnAnswer(r) ==
    IF Chunked(r)
    THEN [status |-> 200, body |-> InfiniteBody(OwnReturn(r))]
    ELSE IF Returned(calls[r][1])
    THEN [ status |-> 200,
           body |-> [ response |-> calls[r][1].result.value,
                      mode |-> "default" ] ]
    ELSE [ status |-> 500,
           body |-> [ error |-> "Internal server error",
                      details |-> Str(calls[r][1].result.message) ] ]

\* r holds nothing.
Blank(r) ==
    LocalsOf(r) = << "idle", NoRequest, <<>>, 0, <<>>, FALSE, NoReturn, <<>>,
                     NoResponse >>

\* Invocation r is where it would be had it run alone with the same
\* request and the same gateway answers to its own calls.
AsIfAlone(r) ==
    /\ pc[r] = "idle" => Blank(r)
    /\ pc[r] # "idle" /\ Chunked(r) =>
        LET own == OwnChunks(r)
        IN  /\ chunks[r] = own
            /\ \A i \in 1..Len(calls[r]) :
                   /\ calls[r][i].chunk \in 1..Len(own)
                   /\ calls[r][i].prompt = own[calls[r][i].chunk].prompt
            /\ results[r] = OwnOutcomes(r)
            /\ pc[r] = "done" =>
                   ret[r] = OwnReturn(r) /\ res[r] = OwnAnswer(r)
    /\ pc[r] # "idle" /\ ~Chunked(r) =>
        /\ results[r] = <<>>
        /\ ret[r] = NoReturn
        /\ Len(calls[r]) = 1
        /\ calls[r][1].prompt = req[r].body.message.v
        /\ pc[r] = "done" => res[r] = OwnAnswer(r)

\* A step changes what at most one invocation holds.
OneAtATime ==
    \A r \in Requests : \A q \in Requests \ {r} :
        LocalsOf(r)' # LocalsOf(r) => LocalsOf(q)' = LocalsOf(q)

---------------------------------------------------------------------------
\* C18: requests are isolated.  When two invocations of the handler run
\* interleaved at their suspension points, the outcomes, counts and answer
\* of each are those it has when it runs alone with the same request and
\* the same gateway answers to its own calls; every outcome an invocation
\* holds comes from one of its own gateway calls; a step of one invocation
\* changes nothing the other holds; and an invocation that is over holds
\* nothing.
C18_Isolated ==
    /\ [](\A r \in Requests : AsIfAlone(r))
    /\ [][OneAtATime]_vars

\* Both invocations are chunked requests with different messages; the
\* first has answered with two outcomes while the second, which already
\* holds an outcome, waits for the gateway.
C18_Witness ==
    /\ pc[1] = "done" /\ Chunked(1) /\ Len(ret[1].results) = 2
    /\ pc[MaxRequests] = "await" /\ Len(results[MaxRequests]) = 1
    /\ req[1].body.message # req[MaxRequests].body.message

=============================================================================
